---- MODULE Spec2Model ----
(***************************************************************************)
(* Model of the Pokemon TCG price bot: the message parser, the             *)
(* TCGPlayerService catalog cache (initialize / searchProducts) and the    *)
(* Discord handlers that drive them.                                       *)
(*                                                                         *)
(* Text is modelled as TLA+ strings handled character by character.        *)
(* Characters outside ASCII are written with ASCII stand-ins, each of them *)
(* a non-word character as the original:                                   *)
(*    "^"   U+00E9  e with acute accent                                    *)
(*    "~"   U+2014  em dash                                                *)
(*    "{}"  U+251C U+2310, the two characters the service file's patterns  *)
(*          hold where the e-acute was meant                               *)
(*    "<|>" U+0393 U+00C7 U+00F6, the three characters the service file's  *)
(*          pattern holds where the em dash was meant                      *)
(* Time is counted in hours.                                               *)
(***************************************************************************)
EXTENDS Integers, Sequences, FiniteSets, TLC

----------------------------------------------------------------------------
(* Strings *)

UpperLetters == "ABCDEFGHIJKLMNOPQRSTUVWXYZ"
LowerLetters == "abcdefghijklmnopqrstuvwxyz"
Digits == "0123456789"

Ch(s, i) == SubSeq(s, i, i)

CharIn(c, s) == \E i \in 1..Len(s) : Ch(s, i) = c

LowerCh(c) ==
  IF CharIn(c, UpperLetters)
    THEN Ch(LowerLetters, CHOOSE i \in 1..26 : Ch(UpperLetters, i) = c)
    ELSE c

RECURSIVE toLowerCase(_)
toLowerCase(s) ==
  IF s = "" THEN "" ELSE LowerCh(Head(s)) \o toLowerCase(Tail(s))

\* String.prototype.includes
includes(s, w) ==
  \E i \in 1..(Len(s) - Len(w) + 1) : SubSeq(s, i, i + Len(w) - 1) = w

\* String.prototype.startsWith
startsWith(s, p) == Len(s) >= Len(p) /\ SubSeq(s, 1, Len(p)) = p

\* \s of a regular expression, over the characters the inputs use
IsSpace(c) == c \in {" ", "\n", "\t"}

\* \w of a regular expression
IsWordChar(c) ==
  CharIn(c, UpperLetters) \/ CharIn(c, LowerLetters) \/ CharIn(c, Digits) \/ c = "_"

RECURSIVE trimStart(_)
trimStart(s) ==
  IF s # "" /\ IsSpace(Head(s)) THEN trimStart(Tail(s)) ELSE s

RECURSIVE trimEnd(_)
trimEnd(s) ==
  IF s # "" /\ IsSpace(Ch(s, Len(s))) THEN trimEnd(SubSeq(s, 1, Len(s) - 1)) ELSE s

\* String.prototype.trim
trim(s) == trimEnd(trimStart(s))

\* s.replace(/^<prefix>\s*/i, ''): the prefix, matched without regard to case
\* at the very start of s, and the whitespace that follows it
stripPrefix(s, prefix) ==
  IF Len(s) >= Len(prefix) /\ toLowerCase(SubSeq(s, 1, Len(prefix))) = toLowerCase(prefix)
    THEN trimStart(SubSeq(s, Len(prefix) + 1, Len(s)))
    ELSE s

\* s.replace(/<pat>/g, rep) for a literal pattern
RECURSIVE replaceAll(_, _, _)
replaceAll(s, pat, rep) ==
  IF s = "" THEN ""
  ELSE IF startsWith(s, pat)
    THEN rep \o replaceAll(SubSeq(s, Len(pat) + 1, Len(s)), pat, rep)
    ELSE Head(s) \o replaceAll(Tail(s), pat, rep)

\* s.replace(/\s+/g, ' ')
RECURSIVE collapseWhitespace(_)
collapseWhitespace(s) ==
  IF s = "" THEN ""
  ELSE IF IsSpace(Head(s))
    THEN " " \o collapseWhitespace(trimStart(s))
    ELSE Head(s) \o collapseWhitespace(Tail(s))

\* s.replace(new RegExp(`\\b${abbrev}\\b`, 'gi'), full), scanning from
\* position i: a match needs a word boundary on both of its sides
RECURSIVE replaceWordFrom(_, _, _, _)
replaceWordFrom(s, i, abbrev, full) ==
  IF i > Len(s) THEN ""
  ELSE LET n == Len(abbrev)
           hit == /\ i + n - 1 <= Len(s)
                  /\ toLowerCase(SubSeq(s, i, i + n - 1)) = abbrev
                  /\ (i = 1 \/ ~IsWordChar(Ch(s, i - 1)))
                  /\ (i + n > Len(s) \/ ~IsWordChar(Ch(s, i + n)))
       IN IF hit THEN full \o replaceWordFrom(s, i + n, abbrev, full)
                 ELSE Ch(s, i) \o replaceWordFrom(s, i + 1, abbrev, full)

replaceWord(s, abbrev, full) == replaceWordFrom(s, 1, abbrev, full)

\* String.prototype.split('\n')
RECURSIVE splitLines(_)
splitLines(s) ==
  IF ~includes(s, "\n") THEN <<s>>
  ELSE LET k == CHOOSE i \in 1..Len(s) :
                  Ch(s, i) = "\n" /\ \A j \in 1..(i - 1) : Ch(s, j) # "\n"
       IN <<SubSeq(s, 1, k - 1)>> \o splitLines(SubSeq(s, k + 1, Len(s)))

----------------------------------------------------------------------------
(* messageParser.ts *)

SKIP_WORDS == {"queue"}

\* A faulty shouldSkipSearch: the text is not lowercased
shouldSkipSearchCaseSensitive(text) ==
  \E word \in SKIP_WORDS : includes(text, word)

shouldSkipSearch(text) ==
  LET lowerText == toLowerCase(text)
  IN \E word \in SKIP_WORDS : includes(lowerText, word)

pokemonKeywords ==
  {"pok{}mon", "pokemon", "pikachu", "charizard", "booster", "elite trainer box",
   "etb", "tcg", "trading card", "scarlet", "violet", "paldea", "obsidian flames",
   "paradox rift", "temporal forces", "twilight masquerade", "shrouded fable",
   "stellar crown", "surging sparks", "prismatic evolutions", "destined rivals"}

isPokemonProduct(text) ==
  LET lowerText == toLowerCase(text)
  IN \E keyword \in pokemonKeywords : includes(lowerText, keyword)

\* Object.entries(ABBREVIATIONS), in insertion order
ABBREVIATIONS ==
  << <<"upc", "Ultra Premium Collection">>,
     <<"etb", "Elite Trainer Box">>,
     <<"bb", "Booster Box">> >>

RECURSIVE expandAbbreviations(_, _)
expandAbbreviations(cleaned, k) ==
  IF k > Len(ABBREVIATIONS) THEN cleaned
  ELSE expandAbbreviations(
         replaceWord(cleaned, ABBREVIATIONS[k][1], ABBREVIATIONS[k][2]), k + 1)

stripNamePrefixes(name) ==
  stripPrefix(
    stripPrefix(
      stripPrefix(
        stripPrefix(name, "Pok^mon Trading Card Game:"),
        "Pokemon Trading Card Game:"),
      "Pokemon TCG:"),
    "PTCG:")

cleanProductName(name) ==
  LET cleaned == trim(collapseWhitespace(replaceAll(stripNamePrefixes(name), "~", "-")))
  IN expandAbbreviations(cleaned, 1)

----------------------------------------------------------------------------
(* tcgplayerService: the remote catalog *)

\* Date.now() when the process starts, in hours since the epoch
BootTime == 54 * 365 * 24

\* oneYearAgo.setFullYear(oneYearAgo.getFullYear() - 2), in hours
TwoYears == 2 * 365 * 24

\* The groups the catalog can list: TCGGroup, with publishedOn already parsed
\* (hours since the epoch; validDate is FALSE when the string is no date and
\* new Date(publishedOn) is an invalid date).  Groups 1 and 2 share a publish time,
\* group 4 crosses the two-year line while the bot runs, group 5 is three
\* years old, group 6 has no parseable date and group 7 is announced for a
\* future date.
Group(id) ==
  CASE id = 1 -> [groupId |-> 1, name |-> "Surging Sparks", publishedOn |-> BootTime - 100, validDate |-> TRUE]
    [] id = 2 -> [groupId |-> 2, name |-> "Stellar Crown", publishedOn |-> BootTime - 100, validDate |-> TRUE]
    [] id = 3 -> [groupId |-> 3, name |-> "Destined Rivals", publishedOn |-> BootTime - 50, validDate |-> TRUE]
    [] id = 4 -> [groupId |-> 4, name |-> "Paldea Evolved", publishedOn |-> BootTime - TwoYears + 3, validDate |-> TRUE]
    [] id = 5 -> [groupId |-> 5, name |-> "Silver Tempest", publishedOn |-> BootTime - 3 * 365 * 24, validDate |-> TRUE]
    [] id = 6 -> [groupId |-> 6, name |-> "Promo", publishedOn |-> 0, validDate |-> FALSE]
    [] id = 7 -> [groupId |-> 7, name |-> "Mega Evolution", publishedOn |-> BootTime + 500, validDate |-> TRUE]

GroupIds == 1..7

\* The bodies a successful GET .../groups can carry: lists of at most
\* MaxGroups groups
MaxGroups == 3

GroupIdLists ==
  { <<>>, <<1>>, <<5>>, <<1, 2, 3>>, <<2, 5, 1>>, <<4, 3>>, <<6, 7, 1>>, <<3, 2, 1, 4>> }

GroupsResponses ==
  { [k \in 1..Len(l) |-> Group(l[k])] : l \in { m \in GroupIdLists : Len(m) <= MaxGroups } }

\* The body of GET .../{groupId}/products: TCGProduct rows
ProductsOf(groupId) ==
  CASE groupId = 1 -> << [productId |-> 101, name |-> "Charizard ex Elite Trainer Box", groupId |-> 1],
                         [productId |-> 102, name |-> "Surging Sparks Booster Box", groupId |-> 1] >>
    [] groupId = 2 -> << [productId |-> 201, name |-> "Stellar Crown Booster Bundle", groupId |-> 2] >>
    [] groupId = 3 -> << [productId |-> 301, name |-> "Destined Rivals Elite Trainer Box", groupId |-> 3] >>
    [] groupId = 4 -> << [productId |-> 401, name |-> "Paldea Evolved Booster Box", groupId |-> 4] >>
    [] groupId = 7 -> << [productId |-> 701, name |-> "Mega Evolution Booster Bundle", groupId |-> 7] >>
    [] OTHER -> << >>

\* The body of GET .../{groupId}/prices: TCGPrice rows.  Product 101 has two
\* sub-types, product 201 has no price row, and row 999 names no product.
PricesOf(groupId) ==
  CASE groupId = 1 -> << [productId |-> 101, subTypeName |-> "Holofoil", marketPrice |-> 60],
                         [productId |-> 102, subTypeName |-> "Normal", marketPrice |-> 150],
                         [productId |-> 101, subTypeName |-> "Normal", marketPrice |-> 55] >>
    [] groupId = 2 -> << [productId |-> 999, subTypeName |-> "Normal", marketPrice |-> 1] >>
    [] groupId = 3 -> << [productId |-> 301, subTypeName |-> "Normal", marketPrice |-> 50] >>
    [] groupId = 4 -> << [productId |-> 401, subTypeName |-> "Normal", marketPrice |-> 140] >>
    [] groupId = 7 -> << [productId |-> 701, subTypeName |-> "Normal", marketPrice |-> 30] >>
    [] OTHER -> << >>

----------------------------------------------------------------------------
(* tcgplayerService: TCGPlayerService *)

\* private cacheValidityMs = 6 * 60 * 60 * 1000, in hours
cacheValidityMs == 6

\* The clock is read every TickHours, up to MaxClock hours after the start
TickHours == cacheValidityMs \div 2
MaxClock == 6

\* The rebuilds one run of the bot is followed through
MaxRebuilds == 2

\* Requests that were abandoned by their caller and are still in flight
MaxOrphans == 1

\* this.fuse = null
NoFuse == [docs |-> 0, index |-> << >>]

\* What reading docs[i] past the end of an array gives
Undefined == [productId |-> 0, name |-> "undefined", groupId |-> 0,
              prices |-> << >>, groupName |-> "undefined"]

\* The arrays of ProductWithPrice the service allocates.  A field of the
\* service or of a Fuse instance holds a reference to one of them; two are
\* live at most (the one the index was built over, the one being filled).
ArrayRefs == {1, 2}

None == [query |-> "", limit |-> 0, results |-> << >>, warned |-> FALSE, threw |-> FALSE]

IdleFrame ==
  [pc |-> "idle", forceRefresh |-> FALSE, now |-> 0, oneYearAgo |-> 0,
   recentGroups |-> << >>, idx |-> 0, products |-> "none", prices |-> "none"]

VARIABLES
  clock,                  \* Date.now()
  groupsCache,            \* this.groupsCache
  productsCache,          \* this.productsCache: groupId -> TCGProduct[]
  pricesCache,            \* this.pricesCache: groupId -> TCGPrice[]
  arrays,                 \* the heap: array reference -> its elements
  allProductsWithPrices,  \* this.allProductsWithPrices: an array reference
  fuse,                   \* this.fuse: NoFuse, or the index and the array it refers to
  lastFetchTime,          \* this.lastFetchTime
  init,                   \* the running initialize() call: its position and locals
  requests,               \* the HTTP requests in flight
  initResult,             \* how the latest initialize() call ended
  readyPc,                \* the position of the client.once('ready') handler
  lastSearch,             \* the searchProducts() call of the latest step and what it returned
  published,              \* history: the collection at the end of the latest completed rebuild
  everBuilt,              \* history: a rebuild has completed
  fetchLog,               \* history: the groups whose products and prices the latest
                          \* rebuild requested, in order
  failedIdx,              \* history: the positions in recentGroups whose fetch failed in the
                          \* latest rebuild (0: the groups request itself)
  rebuilds,               \* history: the rebuilds started so far
  handler,                \* the message handled last: how it was routed, the searches
                          \* made and the replies sent for it so far, and, while its
                          \* handleChannelMessage() call waits for a reply to be sent
                          \* (pc = "replying"), the position k of that call in its loop
  normInput,              \* the text given to cleanProductName
  normOnce,               \* cleanProductName(normInput)
  normTwice,              \* cleanProductName(normOnce)
  normPc                  \* "off", or how far the two calls have got: "in", "once", "twice"

botVars == <<handler>>

normVars == <<normInput, normOnce, normTwice, normPc>>

svcVars ==
  <<clock, groupsCache, productsCache, pricesCache, arrays, allProductsWithPrices,
    fuse, lastFetchTime, init, requests, initResult, readyPc, lastSearch,
    published, everBuilt, fetchLog, failedIdx, rebuilds>>

\* Map.prototype.set
MapSet(m, k, v) == [x \in (DOMAIN m) \cup {k} |-> IF x = k THEN v ELSE m[x]]

\* g => publishDate > oneYearAgo: a comparison with an invalid date is false
isRecent(g, oneYearAgo) ==
  g.validDate /\ g.publishedOn > oneYearAgo

\* Array.prototype.filter
filterRecent(groups, oneYearAgo) ==
  SelectSeq(groups, LAMBDA g : isRecent(g, oneYearAgo))

\* (a, b) => new Date(b.publishedOn).getTime() - new Date(a.publishedOn).getTime()
compareGroups(a, b) == b.publishedOn - a.publishedOn

\* A faulty insertSorted: an unstable sort, which places an element before
\* the elements it compares equal to
RECURSIVE insertSortedUnstable(_, _)
insertSortedUnstable(sorted, g) ==
  IF sorted = << >> THEN <<g>>
  ELSE IF g.publishedOn >= Head(sorted).publishedOn
    THEN <<g>> \o sorted
    ELSE <<Head(sorted)>> \o insertSortedUnstable(Tail(sorted), g)

\* Array.prototype.sort is stable: an element is placed after every element
\* it does not sort strictly before
RECURSIVE insertSorted(_, _)
insertSorted(sorted, g) ==
  IF sorted = << >> THEN <<g>>
  ELSE IF compareGroups(g, Head(sorted)) < 0
    THEN <<g>> \o sorted
    ELSE <<Head(sorted)>> \o insertSorted(Tail(sorted), g)

RECURSIVE sortGroups(_)
sortGroups(groups) ==
  IF groups = << >> THEN << >>
  ELSE insertSorted(sortGroups(SubSeq(groups, 1, Len(groups) - 1)), groups[Len(groups)])

\* lines 258-265
recentGroupsOf(groups, oneYearAgo) == sortGroups(filterRecent(groups, oneYearAgo))

\* lines 281-294: the rows of one group, each with its price rows
joinGroup(group, products, prices) ==
  [k \in 1..Len(products) |->
     [productId |-> products[k].productId,
      name |-> products[k].name,
      groupId |-> products[k].groupId,
      prices |-> SelectSeq(prices, LAMBDA p : p.productId = products[k].productId),
      groupName |-> group.name]]

\* this.allProductsWithPrices = []: a new array; the one the index was built
\* over is left as it is
freshArrayRef == CHOOSE r \in ArrayRefs : r # allProductsWithPrices

\* new Fuse(docs, options): keeps the reference to docs and indexes the text
\* of its keys at construction
newFuse(ref, docs) ==
  [docs |-> ref,
   index |-> [k \in 1..Len(docs) |->
                [i |-> k, name |-> docs[k].name, groupName |-> docs[k].groupName]]]

\* An array no field refers to any more is dropped from the heap
collect(heap, liveRef) == [r \in ArrayRefs |-> IF r = liveRef THEN heap[r] ELSE << >>]

----------------------------------------------------------------------------
(* The bot: configuration and incoming messages *)

\* process.env.COMMAND_PREFIX || '!price'
COMMAND_PREFIX == "!price"

\* process.env.AUTO_RESPOND !== 'false'
AUTO_RESPOND == TRUE

Embed(title, description, price) ==
  [title |-> title, description |-> description, price |-> price]

\* The messages the gateway delivers.  self: written by the bot itself;
\* monitored: the channel is one of MONITORED_CHANNEL_IDS; price: the value
\* of the embed field named "price" ("" when there is none).
Msg(self, monitored, content, embeds) ==
  [self |-> self, monitored |-> monitored, content |-> content, embeds |-> embeds]

Messages ==
  << Msg(FALSE, FALSE, "!price Charizard", << >>),
     Msg(FALSE, TRUE, "!price   ", << >>),
     Msg(FALSE, FALSE, "!price xyzzy", << >>),
     Msg(FALSE, TRUE, "Charizard ETB back in stock, queue opened", << >>),
     Msg(FALSE, TRUE, "Charizard ex ETB", << >>),
     Msg(FALSE, TRUE, "",
         << Embed("PTCG: Surging Sparks BB", "", "$160"),
            Embed("Destined Rivals ETB", "Twilight Masquerade tin\nshort", "") >>),
     Msg(FALSE, TRUE, "Pikachu plush restock",
         << Embed("Pokemon TCG: Stellar Crown Booster Bundle QUEUE", "", "") >>),
     Msg(TRUE, TRUE, "!price Charizard", << >>),
     Msg(FALSE, FALSE, "Charizard ex ETB", << >>),
     Msg(FALSE, TRUE, "hello everyone, good morning", << >>),
     Msg(FALSE, TRUE, "Booster box QuEuE is live", << >>),
     Msg(FALSE, TRUE, "Restock alert",
         << Embed("Prismatic Evolutions tin", "", "$25") >>) >>

MessageIds == 1..Len(Messages)

\* message.embeds.map(e => e.title || '').join(' ')
RECURSIVE joinTitles(_)
joinTitles(embeds) ==
  IF embeds = << >> THEN ""
  ELSE IF Len(embeds) = 1 THEN embeds[1].title
  ELSE embeds[1].title \o " " \o joinTitles(Tail(embeds))

\* line 180
fullTextOf(message) == message.content \o " " \o joinTitles(message.embeds)

\* lines 146-151: the lines of a description that name a product
RECURSIVE descriptionProducts(_)
descriptionProducts(lines) ==
  IF lines = << >> THEN << >>
  ELSE (IF isPokemonProduct(Head(lines)) /\ Len(Head(lines)) > 10
          THEN << [name |-> trim(Head(lines)), retailPrice |-> ""] >>
          ELSE << >>)
       \o descriptionProducts(Tail(lines))

\* lines 137-153
RECURSIVE embedProducts(_)
embedProducts(embeds) ==
  IF embeds = << >> THEN << >>
  ELSE LET embed == Head(embeds)
       IN (IF embed.title # "" /\ isPokemonProduct(embed.title)
             THEN << [name |-> embed.title, retailPrice |-> embed.price] >>
             ELSE << >>)
          \o (IF embed.description # ""
                THEN descriptionProducts(splitLines(embed.description))
                ELSE << >>)
          \o embedProducts(Tail(embeds))

\* lines 163-168
RECURSIVE contentProducts(_)
contentProducts(lines) ==
  IF lines = << >> THEN << >>
  ELSE LET trimmedLine == trim(Head(lines))
       IN (IF Len(trimmedLine) > 10 /\ isPokemonProduct(trimmedLine)
             THEN << [name |-> trimmedLine, retailPrice |-> ""] >>
             ELSE << >>)
          \o contentProducts(Tail(lines))

extractProductNames(message) ==
  LET fromEmbeds == embedProducts(message.embeds)
  IN IF message.content # "" /\ isPokemonProduct(message.content)
       THEN LET content == trim(message.content)
                products == fromEmbeds \o contentProducts(splitLines(content))
            IN IF products = << >> /\ Len(content) > 10
                 THEN << [name |-> content, retailPrice |-> ""] >>
                 ELSE products
       ELSE fromEmbeds

\* message.content.slice(COMMAND_PREFIX.length).trim()
commandQuery(message) ==
  trim(SubSeq(message.content, Len(COMMAND_PREFIX) + 1, Len(message.content)))

\* The values of the pure functions on the messages, computed once
SkipOf == [m \in MessageIds |-> shouldSkipSearch(fullTextOf(Messages[m]))]

ProductInfosOf == [m \in MessageIds |-> extractProductNames(Messages[m])]

CleanedNamesOf ==
  [m \in MessageIds |->
     [k \in 1..Len(ProductInfosOf[m]) |-> cleanProductName(ProductInfosOf[m][k].name)]]

IsCommand == [m \in MessageIds |-> startsWith(Messages[m].content, COMMAND_PREFIX)]

CommandQueryOf == [m \in MessageIds |-> commandQuery(Messages[m])]

----------------------------------------------------------------------------
(* searchProducts *)

\* The queries a caller of the service passes to searchProducts
SearchQueries == {"Charizard", "PTCG: booster box", "xyzzy"}

\* lines 330-335
cleanQuery(query) ==
  trim(
    replaceAll(
      stripPrefix(
        stripPrefix(
          stripPrefix(query, "Pok{}mon Trading Card Game:"),
          "Pokemon Trading Card Game:"),
        "PTCG:"),
      "<|>", "-"))

\* Fuse's scoring of one indexed text against a pattern, with threshold 0.4
\* and minMatchCharLength 3.  The library is not part of the repository: an
\* approximate match is taken to be every word of the pattern (of 3
\* characters or more) occurring in the text, without regard to case.
RECURSIVE wordsOf(_, _)
wordsOf(s, word) ==
  IF s = "" THEN (IF word = "" THEN {} ELSE {word})
  ELSE IF IsWordChar(Head(s))
    THEN wordsOf(Tail(s), word \o LowerCh(Head(s)))
    ELSE (IF word = "" THEN {} ELSE {word}) \cup wordsOf(Tail(s), "")

fuzzyMatch(text, pattern) ==
  LET ws == { w \in wordsOf(pattern, "") : Len(w) >= 3 }
  IN ws # {} /\ \A w \in ws : includes(toLowerCase(text), w)

\* Every query searchProducts is called with, and every text an index holds
Range(f) == { f[x] : x \in DOMAIN f }

KnownQueries ==
  SearchQueries
    \cup { CommandQueryOf[m] : m \in { n \in MessageIds : IsCommand[n] } }
    \cup UNION { Range(CleanedNamesOf[m]) : m \in MessageIds }

IndexedTexts ==
  { Group(g).name : g \in GroupIds }
    \cup UNION { { ProductsOf(g)[k].name : k \in 1..Len(ProductsOf(g)) } : g \in GroupIds }

\* The indexed texts each query matches (after the clean-up of lines
\* 330-335), computed once
MatchingTexts ==
  [q \in KnownQueries |-> { t \in IndexedTexts : fuzzyMatch(t, cleanQuery(q)) }]

Min(a, b) == IF a < b THEN a ELSE b

\* fuse.search(cleanQuery, { limit }).map(r => r.item): the index entries that
\* match, in index order, each resolved to the element docs[i] of the array
\* the index refers to
fuseSearch(f, heap, query, limit) ==
  LET hits == SelectSeq(f.index,
                LAMBDA e : e.name \in MatchingTexts[query]
                           \/ e.groupName \in MatchingTexts[query])
      docs == heap[f.docs]
  IN [k \in 1..Min(limit, Len(hits)) |->
        IF hits[k].i <= Len(docs) THEN docs[hits[k].i] ELSE Undefined]

\* A faulty searchProducts: no test of this.fuse, so the call on null throws
searchProductsUnguarded(query, limit) ==
  IF fuse = NoFuse
    THEN [query |-> query, limit |-> limit, results |-> << >>,
          warned |-> FALSE, threw |-> TRUE]
    ELSE [query |-> query, limit |-> limit,
          results |-> fuseSearch(fuse, arrays, query, limit),
          warned |-> FALSE, threw |-> FALSE]

\* searchProducts(query, limit): what it returns, whether it logged the
\* "not initialized" warning, whether it threw
searchProducts(query, limit) ==
  IF fuse = NoFuse
    THEN [query |-> query, limit |-> limit, results |-> << >>,
          warned |-> TRUE, threw |-> FALSE]
    ELSE [query |-> query, limit |-> limit,
          results |-> fuseSearch(fuse, arrays, query, limit),
          warned |-> FALSE, threw |-> FALSE]

----------------------------------------------------------------------------
(* initialize *)

Request(kind, groupId, awaited) ==
  [kind |-> kind, groupId |-> groupId, awaited |-> awaited]

\* The initialize() promise settles: the ready handler, when it is the one
\* waiting, logs success or the error (lines 252-257)
settleReady(ok) ==
  IF readyPc = "awaiting" THEN (IF ok THEN "loaded" ELSE "failed") ELSE readyPc

\* lines 244-253: the freshness test, then the groups request
initialize(forceRefresh) ==
  LET now == clock
  IN /\ init.pc = "idle"
     /\ IF ~forceRefresh
           /\ Len(arrays[allProductsWithPrices]) > 0
           /\ now - lastFetchTime < cacheValidityMs
          THEN /\ initResult' = "cached"
               /\ UNCHANGED <<init, requests, rebuilds, fetchLog, failedIdx>>
          ELSE /\ init' = [IdleFrame EXCEPT !.pc = "groups",
                                            !.forceRefresh = forceRefresh,
                                            !.now = now]
               /\ requests' = requests \cup {Request("groups", 0, TRUE)}
               /\ initResult' = "pending"
               /\ rebuilds < MaxRebuilds
               /\ rebuilds' = rebuilds + 1
               /\ fetchLog' = << >>
               /\ failedIdx' = {}
     /\ UNCHANGED <<groupsCache, productsCache, pricesCache, arrays,
                    allProductsWithPrices, fuse, lastFetchTime, published,
                    everBuilt, clock>>
     /\ lastSearch' = None

\* client.once('ready'): the first call, without forceRefresh
Ready ==
  /\ UNCHANGED <<botVars, normVars>>
  /\ readyPc = "start"
  /\ initialize(FALSE)
  /\ readyPc' = IF initResult' = "cached" THEN "loaded" ELSE "awaiting"

\* A later call of the exported service, by a caller that awaits it
InitializeCall(forceRefresh) ==
  /\ UNCHANGED <<botVars, normVars>>
  /\ readyPc \in {"loaded", "failed"}
  /\ initialize(forceRefresh)
  /\ UNCHANGED readyPc

\* lines 303-316, after the last group: the time stamp and the new index
publish(frame, heap, ref) ==
  /\ lastFetchTime' = frame.now
  /\ fuse' = newFuse(ref, heap[ref])
  /\ arrays' = collect(heap, ref)
  /\ init' = [frame EXCEPT !.pc = "idle", !.products = "none", !.prices = "none"]
  /\ initResult' = "resolved"
  /\ readyPc' = settleReady(TRUE)
  /\ published' = heap[ref]
  /\ everBuilt' = TRUE

\* for (const group of recentGroups): on to the group at position k, which
\* starts with the pacing delay, or past the loop when there is none
continueLoop(frame, k, heap, ref) ==
  IF k > Len(frame.recentGroups)
    THEN publish(frame, heap, ref)
    ELSE /\ init' = [frame EXCEPT !.pc = "delay", !.idx = k,
                                  !.products = "none", !.prices = "none"]
         /\ arrays' = heap
         /\ UNCHANGED <<lastFetchTime, fuse, initResult, readyPc, published, everBuilt>>

\* A faulty resetCollection: the array is emptied in place
\* (this.allProductsWithPrices.length = 0), so the index keeps referring to
\* the array that is being refilled
resetCollectionInPlace(heap) ==
  [ref |-> allProductsWithPrices,
   heap |-> [heap EXCEPT ![allProductsWithPrices] = << >>]]

\* line 269: this.allProductsWithPrices = []
resetCollection(heap) ==
  [ref |-> freshArrayRef, heap |-> [heap EXCEPT ![freshArrayRef] = << >>]]

\* fetchGroups() resolves with body: lines 253-272
GroupsFetchResolved(body) ==
  /\ UNCHANGED <<botVars, normVars>>
  /\ init.pc = "groups"
  /\ requests' = requests \ {Request("groups", 0, TRUE)}
  /\ groupsCache' = body
  /\ LET oneYearAgo == clock - TwoYears
         frame == [init EXCEPT !.oneYearAgo = oneYearAgo,
                               !.recentGroups = recentGroupsOf(body, oneYearAgo)]
         reset == resetCollection(arrays)
     IN /\ allProductsWithPrices' = reset.ref
        /\ continueLoop(frame, 1, reset.heap, reset.ref)
  /\ lastSearch' = None
  /\ UNCHANGED <<productsCache, pricesCache, clock, rebuilds, fetchLog, failedIdx>>

\* A faulty groupsFetchThrew: the error is swallowed and the rebuild goes on
\* with no groups, publishing an empty collection
groupsFetchSwallowed ==
  /\ groupsCache' = << >>
  /\ allProductsWithPrices' = resetCollection(arrays).ref
  /\ continueLoop([init EXCEPT !.oneYearAgo = clock - TwoYears], 1,
                  resetCollection(arrays).heap, resetCollection(arrays).ref)
  /\ UNCHANGED <<productsCache, pricesCache>>

\* line 253 throws: the error leaves initialize, and the ready handler, when
\* it is the caller, logs it (lines 255-257)
groupsFetchThrew ==
  /\ init' = IdleFrame
  /\ initResult' = "rejected"
  /\ readyPc' = settleReady(FALSE)
  /\ UNCHANGED <<groupsCache, productsCache, pricesCache, arrays,
                 allProductsWithPrices, fuse, lastFetchTime, published, everBuilt>>

\* fetchGroups() throws: the response is not ok, or the request fails.
\* Position 0 of failedIdx stands for the groups request.
GroupsFetchFailed ==
  /\ UNCHANGED <<botVars, normVars>>
  /\ init.pc = "groups"
  /\ requests' = requests \ {Request("groups", 0, TRUE)}
  /\ failedIdx' = {0}
  /\ lastSearch' = None
  /\ UNCHANGED <<clock, rebuilds, fetchLog>>
  /\ groupsFetchThrew

currentGroup == init.recentGroups[init.idx]

\* line 274 resolves; lines 276-279 start both requests of the group
DelayElapsed ==
  /\ UNCHANGED <<botVars, normVars>>
  /\ init.pc = "delay"
  /\ init' = [init EXCEPT !.pc = "fetch", !.products = "pending", !.prices = "pending"]
  /\ requests' = requests \cup {Request("products", currentGroup.groupId, TRUE),
                                Request("prices", currentGroup.groupId, TRUE)}
  /\ fetchLog' = Append(fetchLog, currentGroup.groupId)
  /\ UNCHANGED <<groupsCache, productsCache, pricesCache, arrays,
                 allProductsWithPrices, fuse, lastFetchTime, published,
                 everBuilt, failedIdx, clock, initResult, readyPc, rebuilds>>
  /\ lastSearch' = None

\* lines 281-297: both requests have resolved
groupLoaded ==
  LET group == currentGroup
      products == ProductsOf(group.groupId)
      prices == PricesOf(group.groupId)
      heap == [arrays EXCEPT ![allProductsWithPrices] =
                 arrays[allProductsWithPrices] \o joinGroup(group, products, prices)]
  IN /\ productsCache' = MapSet(productsCache, group.groupId, products)
     /\ pricesCache' = MapSet(pricesCache, group.groupId, prices)
     /\ continueLoop(init, init.idx + 1, heap, allProductsWithPrices)
     /\ UNCHANGED failedIdx

\* A faulty groupFailed: the catch is outside the loop, so the first failing
\* group ends the loop and what has been collected so far is published
groupFailedEndsLoop ==
  /\ failedIdx' = failedIdx \cup {init.idx}
  /\ continueLoop(init, Len(init.recentGroups) + 1, arrays, allProductsWithPrices)
  /\ UNCHANGED <<productsCache, pricesCache>>

\* lines 298-300: the error is logged and the loop goes on
groupFailed ==
  /\ failedIdx' = failedIdx \cup {init.idx}
  /\ continueLoop(init, init.idx + 1, arrays, allProductsWithPrices)
  /\ UNCHANGED <<productsCache, pricesCache>>

other(kind) == IF kind = "products" THEN "prices" ELSE "products"

\* One of the two requests of Promise.all resolves.  The group is joined
\* once both have.
FetchResolved(kind) ==
  /\ UNCHANGED <<botVars, normVars>>
  /\ init.pc = "fetch"
  /\ init[kind] = "pending"
  /\ requests' = requests \ {Request(kind, currentGroup.groupId, TRUE)}
  /\ IF init[other(kind)] = "fulfilled"
       THEN groupLoaded
       ELSE /\ init' = [init EXCEPT ![kind] = "fulfilled"]
            /\ UNCHANGED <<productsCache, pricesCache, arrays, fuse, lastFetchTime,
                           initResult, readyPc, published, everBuilt, failedIdx>>
  /\ lastSearch' = None
  /\ UNCHANGED <<groupsCache, allProductsWithPrices, fetchLog, clock, rebuilds>>

\* One of the two requests of Promise.all fails: Promise.all rejects at once
\* and the catch runs.  The other request, when it is still in flight, is
\* not cancelled; nothing waits for it any more.
FetchFailed(kind) ==
  /\ UNCHANGED <<botVars, normVars>>
  /\ init.pc = "fetch"
  /\ init[kind] = "pending"
  /\ LET mine == Request(kind, currentGroup.groupId, TRUE)
         sibling == Request(other(kind), currentGroup.groupId, TRUE)
         orphan == Request(other(kind), currentGroup.groupId, FALSE)
     IN IF init[other(kind)] = "pending"
          THEN /\ orphan \notin requests
               /\ Cardinality({ r \in requests : ~r.awaited }) < MaxOrphans
               /\ requests' = (requests \ {mine, sibling}) \cup {orphan}
          ELSE requests' = requests \ {mine}
  /\ groupFailed
  /\ lastSearch' = None
  /\ UNCHANGED <<groupsCache, allProductsWithPrices, fetchLog, clock, rebuilds>>

\* A request nothing waits for completes, one way or the other
OrphanSettled(r) ==
  /\ UNCHANGED <<botVars, normVars>>
  /\ r \in requests
  /\ ~r.awaited
  /\ requests' = requests \ {r}
  /\ UNCHANGED <<clock, groupsCache, productsCache, pricesCache, arrays,
                 allProductsWithPrices, fuse, lastFetchTime, init, initResult,
                 readyPc, published, everBuilt, fetchLog, failedIdx, rebuilds>>
  /\ lastSearch' = None

\* Time passes
Tick ==
  /\ UNCHANGED <<botVars, normVars>>
  /\ clock + TickHours <= BootTime + MaxClock
  /\ clock' = clock + TickHours
  /\ UNCHANGED <<groupsCache, productsCache, pricesCache, arrays,
                 allProductsWithPrices, fuse, lastFetchTime, init, requests,
                 initResult, readyPc, published, everBuilt, fetchLog, failedIdx,
                 rebuilds>>
  /\ lastSearch' = None

\* A caller of the service searches
SearchProducts(query, limit) ==
  /\ UNCHANGED <<botVars, normVars>>
  /\ lastSearch' = searchProducts(query, limit)
  /\ UNCHANGED <<clock, groupsCache, productsCache, pricesCache, arrays,
                 allProductsWithPrices, fuse, lastFetchTime, init, requests,
                 initResult, readyPc, published, everBuilt, fetchLog, failedIdx,
                 rebuilds>>

SvcInit ==
  /\ clock = BootTime
  /\ groupsCache = << >>
  /\ productsCache = << >>
  /\ pricesCache = << >>
  /\ arrays = [r \in ArrayRefs |-> << >>]
  /\ allProductsWithPrices = 1
  /\ fuse = NoFuse
  /\ lastFetchTime = 0
  /\ init = IdleFrame
  /\ requests = {}
  /\ initResult = "none"
  /\ readyPc = "start"
  /\ lastSearch = None
  /\ published = << >>
  /\ everBuilt = FALSE
  /\ fetchLog = << >>
  /\ failedIdx = {}
  /\ rebuilds = 0

----------------------------------------------------------------------------
(* The message handlers *)

NoMessage == [pc |-> "idle", msg |-> 0, k |-> 0, route |-> "none", skipped |-> FALSE,
              searches |-> << >>, replies |-> << >>]

BotInit == handler = NoMessage

Searched(query, results) == [query |-> query, found |-> Len(results)]

Reply(kind, about, productId) == [kind |-> kind, about |-> about, productId |-> productId]

\* Whether results[0].name.toLowerCase().includes(query.toLowerCase()),
\* computed once for every query and indexed name
NamesIncluding ==
  [q \in KnownQueries |->
     { t \in IndexedTexts \cup {Undefined.name} : includes(toLowerCase(t), toLowerCase(q)) }]

\* lines 228-241: the reply to a price command, given the search results
priceCommandReply(query, results) ==
  IF Len(results) = 0
    THEN Reply("notFound", query, 0)
    ELSE IF Len(results) = 1 \/ results[1].name \in NamesIncluding[query]
      THEN Reply("price", query, results[1].productId)
      ELSE Reply("list", query, 0)

priceCommandSearched(m, query, results) ==
  [NoMessage EXCEPT !.msg = m, !.route = "command",
                    !.searches = << Searched(query, results) >>,
                    !.replies = << priceCommandReply(query, results) >>]

\* lines 218-242
handlePriceCommand(m, query) ==
  IF trim(query) = ""
    THEN [NoMessage EXCEPT !.msg = m, !.route = "command",
                           !.replies = << Reply("usage", query, 0) >>]
    ELSE priceCommandSearched(m, query, searchProducts(query, 5).results)

\* A faulty channelSearched: a miss is answered with a "not found" reply
channelSearchedAnswersMiss(m, k, sofar, cleanedName, results) ==
  [sofar EXCEPT !.pc = "replying", !.k = k,
                !.searches = Append(@, Searched(cleanedName, results)),
                !.replies = Append(@, IF Len(results) = 0
                                        THEN Reply("notFound", cleanedName, 0)
                                        ELSE Reply("price", cleanedName, results[1].productId))]

\* lines 195-215: the loop over productInfos from position k, up to the
\* first reply it has to wait for, or to its end
RECURSIVE channelLoop(_, _, _)
RECURSIVE channelSearched(_, _, _, _, _)
channelSearched(m, k, sofar, cleanedName, results) ==
  IF Len(results) = 0
    THEN channelLoop(m, k + 1,
           [sofar EXCEPT !.searches = Append(@, Searched(cleanedName, results))])
    ELSE [sofar EXCEPT !.pc = "replying", !.k = k,
                       !.searches = Append(@, Searched(cleanedName, results)),
                       !.replies = Append(@, Reply("price", cleanedName, results[1].productId))]

channelLoop(m, k, sofar) ==
  IF k > Len(ProductInfosOf[m])
    THEN [sofar EXCEPT !.pc = "idle", !.k = 0]
    ELSE channelSearched(m, k, sofar, CleanedNamesOf[m][k],
                         searchProducts(CleanedNamesOf[m][k], 1).results)

\* lines 179-193
handleChannelMessage(m) ==
  IF SkipOf[m]
    THEN [NoMessage EXCEPT !.msg = m, !.route = "channel", !.skipped = TRUE]
    ELSE channelLoop(m, 1, [NoMessage EXCEPT !.msg = m, !.route = "channel"])

\* client.on('messageCreate'), up to the first await that suspends it.
\* Messages are taken one at a time: the handlers share nothing but the
\* service they read.
MessageCreate(m) ==
  /\ UNCHANGED <<svcVars, normVars>>
  /\ handler.pc = "idle"
  /\ handler' =
       IF Messages[m].self
         THEN [NoMessage EXCEPT !.msg = m, !.route = "own"]
         ELSE IF IsCommand[m]
           THEN handlePriceCommand(m, CommandQueryOf[m])
           ELSE IF AUTO_RESPOND /\ Messages[m].monitored
             THEN handleChannelMessage(m)
             ELSE [NoMessage EXCEPT !.msg = m, !.route = "unmonitored"]

\* await message.reply(...) in handleChannelMessage settles; a rejection is
\* caught and logged (lines 209-214), and the loop goes on either way
ReplySettled ==
  /\ UNCHANGED <<svcVars, normVars>>
  /\ handler.pc = "replying"
  /\ handler' = channelLoop(handler.msg, handler.k + 1, handler)

----------------------------------------------------------------------------
(* cleanProductName applied twice *)

\* The pieces the inputs are put together from, and how many of them
NormFragments ==
  {" ", "PTCG:", "pokemon tcg:", "Pokemon Trading Card Game:", "Pok^mon Trading Card Game:",
   "~", "etb", "BBQ", "Box"}

MaxFragments == 3

RECURSIVE NormInputsOf(_)
NormInputsOf(n) ==
  IF n = 0 THEN {""}
  ELSE LET shorter == NormInputsOf(n - 1)
       IN shorter \cup { s \o f : s \in shorter, f \in NormFragments }

NormInputs == NormInputsOf(MaxFragments)

NormOff == normInput = "" /\ normOnce = "" /\ normTwice = "" /\ normPc = "off"

CleanOnce ==
  /\ UNCHANGED <<svcVars, botVars>>
  /\ normPc = "in"
  /\ normOnce' = cleanProductName(normInput)
  /\ normPc' = "once"
  /\ UNCHANGED <<normInput, normTwice>>

CleanTwice ==
  /\ UNCHANGED <<svcVars, botVars>>
  /\ normPc = "once"
  /\ normTwice' = cleanProductName(normOnce)
  /\ normPc' = "twice"
  /\ UNCHANGED <<normInput, normOnce>>

----------------------------------------------------------------------------
(* Properties of the catalog cache, checked under Spec *)

vars == <<svcVars, botVars, normVars>>

SeqRange(q) == { q[k] : k \in 1..Len(q) }

\* What a search can return: every entry of the index, resolved to the
\* element of the array the index refers to
fuseView ==
  [k \in 1..Len(fuse.index) |->
     IF fuse.index[k].i <= Len(arrays[fuse.docs])
       THEN arrays[fuse.docs][fuse.index[k].i]
       ELSE Undefined]

\* A search of a plain sequence of records: the first limit records a query matches
searchOver(records, query, limit) ==
  LET hits == SelectSeq(records,
                LAMBDA p : p.name \in MatchingTexts[query]
                           \/ p.groupName \in MatchingTexts[query])
  IN SubSeq(hits, 1, Min(limit, Len(hits)))

rebuilding == init.pc # "idle"

awaitedRequests(reqs) == { r \in reqs : r.awaited }

\* C1, the states: in every state, the middle of a rebuild included, a search
\* answers from the whole collection of the latest completed rebuild: nothing before
\* the first rebuild has completed, and afterwards exactly the records
\* published, none of the collection being filled.
C1_SnapshotInv ==
  /\ ~everBuilt => fuse = NoFuse
  /\ everBuilt =>
       /\ fuse # NoFuse
       /\ fuseView = published
       /\ \A k \in 1..Len(fuse.index) :
            /\ fuse.index[k].name = published[k].name
            /\ fuse.index[k].groupName = published[k].groupName
  /\ \A query \in SearchQueries :
       searchProducts(query, 5).results =
         IF everBuilt THEN searchOver(published, query, 5) ELSE << >>
  /\ lastSearch # None =>
       lastSearch.results =
         IF everBuilt THEN searchOver(published, lastSearch.query, 5) ELSE << >>

\* C1, the steps: what searches answer changes only in the step that ends a
\* rebuild, after the last retained group, to the collection then complete.
C1_SwapStep ==
  (fuse' # fuse \/ fuseView' # fuseView
     \/ \E query \in SearchQueries : searchProducts(query, 5)' # searchProducts(query, 5))
    => /\ rebuilding
       /\ init'.pc = "idle"
       /\ initResult' = "resolved"
       /\ Len(fetchLog') = Len(init'.recentGroups)
       /\ requests' \cap awaitedRequests(requests) = {}
       /\ fuseView' = arrays'[allProductsWithPrices']

\* C1: a search never observes a partially rebuilt snapshot; it answers from
\* the collection published by the last completed rebuild, which becomes
\* visible in the single step after all groups have been processed.
C1_SearchSeesPublishedSnapshot ==
  []C1_SnapshotInv /\ [][C1_SwapStep]_vars

\* A search that found something while the next rebuild had filled part of
\* a different collection
C1_Witness ==
  /\ init.pc = "fetch"
  /\ everBuilt
  /\ Len(arrays[allProductsWithPrices]) > 0
  /\ arrays[allProductsWithPrices] # published
  /\ lastSearch # None
  /\ Len(lastSearch.results) > 0

isFresh == clock - lastFetchTime < cacheValidityMs

\* C2 as the specification states it: a search made while the snapshot is
\* fresh starts no rebuild, and a search made once the validity window has
\* passed starts one, unless one is running.
C2_StaleQueryTriggersRebuild ==
  [][(lastSearch' # None /\ everBuilt)
       => IF isFresh THEN init' = init
                     ELSE (rebuilding \/ init'.pc # "idle")]_vars

\* The records a rebuild is to publish: the rows of every group of
\* recentGroups whose position is not among the failed ones, as pairs of
\* product and group id
RECURSIVE expectedIds(_, _, _)
expectedIds(groups, k, failed) ==
  IF k > Len(groups) THEN << >>
  ELSE (IF k \in failed THEN << >>
        ELSE [j \in 1..Len(ProductsOf(groups[k].groupId)) |->
                <<ProductsOf(groups[k].groupId)[j].productId, groups[k].groupId>>])
       \o expectedIds(groups, k + 1, failed)

idsOf(records) == [k \in 1..Len(records) |-> <<records[k].productId, records[k].groupId>>]

\* C3: a rebuild that got its group list resolves, whichever groups failed,
\* and publishes the rows of every retained group that did not fail, in
\* order, and no row of a group that failed.
C3_FailedGroupIsSkipped ==
  /\ (rebuilds > 0 /\ 0 \notin failedIdx /\ ~rebuilding)
       => /\ initResult \in {"resolved", "cached"}
          /\ idsOf(arrays[allProductsWithPrices]) = expectedIds(init.recentGroups, 1, failedIdx)
          /\ idsOf(published) = expectedIds(init.recentGroups, 1, failedIdx)
          /\ \A k \in failedIdx :
               \A p \in SeqRange(published) : p.groupId # init.recentGroups[k].groupId
  /\ (rebuilding /\ init.pc # "groups")
       => idsOf(arrays[allProductsWithPrices])
            = expectedIds(SubSeq(init.recentGroups, 1, init.idx - 1), 1, failedIdx)

\* One of three retained groups failed and the rows of the other two are published
C3_Witness ==
  /\ ~rebuilding
  /\ initResult = "resolved"
  /\ Len(init.recentGroups) = 3
  /\ failedIdx = {2}
  /\ Len(published) > 0

awaitedGroupRequests(reqs) == { r \in reqs : r.kind # "groups" /\ r.awaited }

\* C4: the step in which the groups request fails rejects the initialize
\* call and changes neither the collection, nor the index, nor
\* lastFetchTime, and the call has requested no products and no prices; the
\* step that entered the call changed none of them either.
C4_GroupsFailureLeavesSnapshot ==
  [][/\ (0 \in failedIdx' /\ 0 \notin failedIdx)
          => /\ initResult' = "rejected"
             /\ init'.pc = "idle"
             /\ arrays' = arrays
             /\ allProductsWithPrices' = allProductsWithPrices
             /\ fuse' = fuse
             /\ lastFetchTime' = lastFetchTime
             /\ fetchLog' = << >>
             /\ awaitedGroupRequests(requests') = {}
             /\ \A query \in SearchQueries :
                  searchProducts(query, 5)' = searchProducts(query, 5)
     /\ (init.pc = "idle" /\ init'.pc = "groups")
          => /\ arrays' = arrays
             /\ allProductsWithPrices' = allProductsWithPrices
             /\ fuse' = fuse
             /\ lastFetchTime' = lastFetchTime]_vars

\* A search finds records of the earlier snapshot after a rebuild failed on
\* the groups request
C4_Witness ==
  /\ 0 \in failedIdx
  /\ initResult = "rejected"
  /\ everBuilt
  /\ lastSearch # None
  /\ Len(lastSearch.results) > 0

\* C5: a search made before any rebuild has completed returns no result,
\* logs the warning and does not throw.
C5_SearchBeforeFirstBuild ==
  (lastSearch # None /\ ~everBuilt)
    => /\ lastSearch.results = << >>
       /\ lastSearch.warned
       /\ ~lastSearch.threw

\* A search made while the first rebuild has rows collected already
C5_Witness ==
  /\ lastSearch # None
  /\ ~everBuilt
  /\ init.pc = "fetch"
  /\ Len(arrays[allProductsWithPrices]) > 0

\* C6 as the specification states it: at most two requests are in flight,
\* and two in flight are the products and the prices request of one group.
C6_AtMostTwoRequests ==
  /\ Cardinality(requests) <= 2
  /\ \A r1, r2 \in requests :
       r1 # r2 => /\ r1.groupId = r2.groupId
                  /\ {r1.kind, r2.kind} = {"products", "prices"}

\* The groups a rebuild is to retain: those of the fetched list published
\* after oneYearAgo, the later published first and, among groups published
\* at the same time, the one fetched first first.  rank counts the retained
\* groups that go before the group at position i of the fetched list.
retained(groups, oneYearAgo) ==
  { i \in 1..Len(groups) : groups[i].validDate /\ groups[i].publishedOn > oneYearAgo }

rank(groups, oneYearAgo, i) ==
  Cardinality({ j \in retained(groups, oneYearAgo) :
                  \/ groups[j].publishedOn > groups[i].publishedOn
                  \/ (groups[j].publishedOn = groups[i].publishedOn /\ j < i) })

isExpectedOrder(recent, groups, oneYearAgo) ==
  /\ Len(recent) = Cardinality(retained(groups, oneYearAgo))
  /\ \A i \in retained(groups, oneYearAgo) :
       recent[rank(groups, oneYearAgo, i) + 1] = groups[i]

groupIdsOf(groups) == [k \in 1..Len(groups) |-> groups[k].groupId]

\* The position of the first group of recent with a given id
positionOf(recent, groupId) ==
  CHOOSE k \in 1..Len(recent) :
    recent[k].groupId = groupId /\ \A j \in 1..(k - 1) : recent[j].groupId # groupId

C11_StampedAtPublication ==
  [][(rebuilding /\ init'.pc = "idle" /\ initResult' = "resolved")
       => lastFetchTime' = clock']_vars

----------------------------------------------------------------------------
(* Properties of the message handlers, checked under SpecBot *)

\* Whether character c is the lowercase letter l in either case
sameLetter(c, l) ==
  \E i \in 1..Len(LowerLetters) :
    Ch(LowerLetters, i) = l /\ (c = l \/ c = Ch(UpperLetters, i))

\* Whether term occurs in text at position i, in any case
occursAt(text, term, i) ==
  /\ i + Len(term) - 1 <= Len(text)
  /\ \A j \in 1..Len(term) : sameLetter(Ch(text, i + j - 1), Ch(term, j))

holdsSkipTerm(text) ==
  \E term \in SKIP_WORDS : \E i \in 1..Len(text) : occursAt(text, term, i)

\* The messages whose content or one of whose embed titles holds a skip term
HoldsSkipTerm ==
  [m \in MessageIds |->
     \/ holdsSkipTerm(Messages[m].content)
     \/ \E k \in 1..Len(Messages[m].embeds) : holdsSkipTerm(Messages[m].embeds[k].title)]

\* C7: a message of a monitored channel whose content or embed titles hold a
\* skip term, in any case and at any position, is skipped: its handler ends
\* at once, having searched nothing and replied nothing, whatever product
\* names the message holds.
C7_SkipTermMessageIsIgnored ==
  (handler.route = "channel" /\ HoldsSkipTerm[handler.msg])
    => /\ handler.skipped
       /\ handler.pc = "idle"
       /\ handler.searches = << >>
       /\ handler.replies = << >>

\* The message "Booster box QuEuE is live", which names a product, has been
\* handled while the catalog was loaded
C7_Witness ==
  /\ handler.route = "channel"
  /\ handler.msg = 11
  /\ HoldsSkipTerm[11]
  /\ Len(ProductInfosOf[11]) > 0
  /\ everBuilt
  /\ Len(published) > 0

missesOf(searches) == SelectSeq(searches, LAMBDA x : x.found = 0)

hitsOf(searches) == SelectSeq(searches, LAMBDA x : x.found > 0)

\* C8 as the specification states it: once a handler is done, every search
\* of it that found nothing has a reply saying so.
C8_EveryMissIsAnswered ==
  handler.pc = "idle"
    => \A k \in 1..Len(handler.searches) :
         handler.searches[k].found = 0
           => \E j \in 1..Len(handler.replies) :
                /\ handler.replies[j].kind = "notFound"
                /\ handler.replies[j].about = handler.searches[k].query

\* C8, as the code has it: a price command whose search finds nothing is
\* answered with the "not found" reply and nothing else; a product name of a
\* monitored-channel message whose search finds nothing gets no reply at
\* all: the replies of such a message are the price replies to the searches
\* that found something, in order.
C8_MissAnsweredForCommandOnly ==
  /\ (handler.route = "command" /\ Len(handler.searches) > 0
        /\ handler.searches[1].found = 0)
       => handler.replies = << Reply("notFound", handler.searches[1].query, 0) >>
  /\ handler.route = "channel"
       => /\ Len(handler.replies) = Len(hitsOf(handler.searches))
          /\ \A j \in 1..Len(handler.replies) :
               /\ handler.replies[j].kind = "price"
               /\ handler.replies[j].about = hitsOf(handler.searches)[j].query

\* A message of a monitored channel has been handled against a loaded
\* catalog: one of its product names found nothing, another was answered
C8_Witness ==
  /\ handler.route = "channel"
  /\ handler.pc = "idle"
  /\ everBuilt
  /\ Len(published) > 0
  /\ Len(missesOf(handler.searches)) > 0
  /\ Len(handler.replies) > 0

----------------------------------------------------------------------------
(* Property of cleanProductName, checked under SpecNorm *)

\* C9 as the specification states it: cleaning a cleaned name changes nothing.
C9_CleanIsIdempotent ==
  normPc = "twice" => normTwice = normOnce

----------------------------------------------------------------------------
(* Specifications *)

\* The service, called by the ready handler and by later callers, with
\* time passing
Init == SvcInit /\ BotInit /\ NormOff

Next ==
  \/ Ready
  \/ \E forceRefresh \in BOOLEAN : InitializeCall(forceRefresh)
  \/ \E body \in GroupsResponses : GroupsFetchResolved(body)
  \/ GroupsFetchFailed
  \/ DelayElapsed
  \/ \E kind \in {"products", "prices"} : FetchResolved(kind)
  \/ \E kind \in {"products", "prices"} : FetchFailed(kind)
  \/ \E r \in requests : OrphanSettled(r)
  \/ Tick
  \/ \E query \in SearchQueries : SearchProducts(query, 5)

Spec == Init /\ [][Next]_vars

\* The bot as it runs: the one rebuild of the ready handler, and the messages
BotGroupsResponses == { << Group(1), Group(2), Group(3) >>, << Group(5) >> }

NextBot ==
  \/ Ready
  \/ \E body \in BotGroupsResponses : GroupsFetchResolved(body)
  \/ GroupsFetchFailed
  \/ DelayElapsed
  \/ \E kind \in {"products", "prices"} : FetchResolved(kind)
  \/ \E kind \in {"products", "prices"} : FetchFailed(kind)
  \/ \E r \in requests : OrphanSettled(r)
  \/ \E m \in MessageIds : MessageCreate(m)
  \/ ReplySettled

SpecBot == Init /\ [][NextBot]_vars

\* cleanProductName on its own
InitNorm ==
  /\ SvcInit /\ BotInit
  /\ normInput \in NormInputs
  /\ normOnce = "" /\ normTwice = "" /\ normPc = "in"

NextNorm ==
  \/ CleanOnce
  \/ CleanTwice

SpecNorm == InitNorm /\ [][NextNorm]_vars
====
